---------------------------- MODULE Spec2Model ----------------------------
(***************************************************************************)
(* Model of js/main.js: the event status classifier (getEventStatus), the  *)
(* periodic header refresh (updateAccordionHeaders), the accordion         *)
(* (toggleAccordion, setupAccordions) and the DOMContentLoaded handler     *)
(* with its interval and its 100 ms auto-open timer.                       *)
(*                                                                         *)
(* Instants are milliseconds counted from 2025-11-13T00:00:00Z, so that    *)
(* they fit TLC's integers; JavaScript numbers are exact on this range.    *)
(* Strings with Slovak diacritics are written without them (TLA+ strings   *)
(* are ASCII): "Uz prebehlo", "Nazivo", "Ostava: ".                        *)
(***************************************************************************)
EXTENDS Integers, Sequences, FiniteSets, TLC

(***************************************************************************)
(* Configuration (main.js lines 4-7)                                       *)
(***************************************************************************)
LIVE_THRESHOLD_MS == 3 * 60 * 1000

LIVE_DURATION_MS == 6 * 60 * 60 * 1000

(***************************************************************************)
(* Sample data-event-date values.  A date is the sequence of its           *)
(* characters; Undefined stands for an item without the attribute.         *)
(***************************************************************************)
Undefined == <<"undefined">>

EmptyDate == <<>>

BadDate == <<"n","o","t","-","a","-","d","a","t","e">>

\* "2025-11-15T10:00:00+09:00"
Date1 == <<"2","0","2","5","-","1","1","-","1","5","T","1","0",":","0","0",":","0","0","+","0","9",":","0","0">>

\* "2025-11-15T16:03:00.001+09:00"
Date2 == <<"2","0","2","5","-","1","1","-","1","5","T","1","6",":","0","3",":","0","0",".","0","0","1","+","0","9",":","0","0">>

\* new Date(Date1).getTime(), in ms since 2025-11-13T00:00:00Z
Start1 == (2 * 24 + 1) * 60 * 60 * 1000

\* new Date(Date2).getTime() = Start1 + 6h + 3min + 1ms
Start2 == Start1 + LIVE_DURATION_MS + LIVE_THRESHOLD_MS + 1

\* new Date(s).getTime() is NaN for anything that is not a date
IsNaNDate(eventISODate) == eventISODate \notin {Date1, Date2}

\* new Date(s).getTime() for a parseable s
DateGetTime(eventISODate) == IF eventISODate = Date1 THEN Start1 ELSE Start2

(***************************************************************************)
(* Clock readings (new Date().getTime()) the model draws from: the         *)
(* boundaries of both live windows, one millisecond on either side, the    *)
(* four-minute scenario and a reading more than a day ahead of the start.  *)
(***************************************************************************)
Instants ==
    { Start1 - 129784567,
      Start1 - 240000,
      Start1 - LIVE_THRESHOLD_MS - 1,
      Start1 - LIVE_THRESHOLD_MS,
      Start1 + LIVE_DURATION_MS,
      Start1 + LIVE_DURATION_MS + 1,
      Start2 + LIVE_DURATION_MS,
      Start2 + LIVE_DURATION_MS + 1 }

\* Longest time, in ms, between two clock reads of one synchronous tick
MaxLatencyMs == 1

(***************************************************************************)
(* getEventStatus (main.js lines 61-98)                                    *)
(***************************************************************************)
\* JavaScript's % : the result takes the sign of the dividend
JsRem(a, b) == IF a >= 0 THEN a % b ELSE 0 - ((0 - a) % b)

\* String(num).padStart(2, '0') for an integer num >= 0
pad(num) == IF num < 10 THEN "0" \o ToString(num) ELSE ToString(num)

days(distance) == distance \div (1000 * 60 * 60 * 24)

\* Variant: the hours are not reduced modulo one day
hoursOfWholeDistance(distance) == distance \div (1000 * 60 * 60)

hours(distance) == JsRem(distance, 1000 * 60 * 60 * 24) \div (1000 * 60 * 60)

minutes(distance) == JsRem(distance, 1000 * 60 * 60) \div (1000 * 60)

seconds(distance) == JsRem(distance, 1000 * 60) \div 1000

SpanOpen == "<span class=\"time-value event\">"

SpanClose == "</span>"

upcomingText(distance) ==
    (IF days(distance) > 0
        THEN "Ostava: " \o SpanOpen \o pad(days(distance)) \o ":" \o SpanClose
        ELSE "Ostava: ")
    \o SpanOpen \o pad(hours(distance)) \o ":" \o pad(minutes(distance))
    \o ":" \o pad(seconds(distance)) \o SpanClose

\* Every comparison with NaN is false, Math.floor(NaN) is NaN and
\* String(NaN) is "NaN": an unparseable date falls through to the last branch.
nanText == "Ostava: " \o SpanOpen \o "NaN:NaN:NaN" \o SpanClose

\* Variant: the 8-hour window the comments of lines 68 and 76 speak of
isPassedAfterEightHours(eventTime, now) == (eventTime + 8 * 60 * 60 * 1000) - now < 0

\* Variant: the end of the live window counts as passed
isPassedAtLiveEnd(eventTime, now) == (eventTime + LIVE_DURATION_MS) - now <= 0

isPassed(eventTime, now) == (eventTime + LIVE_DURATION_MS) - now < 0

\* Variant: the threshold itself is not yet live
isWithinThresholdStrict(eventTime, now) == eventTime - now < LIVE_THRESHOLD_MS

\* Variant: the comparison is turned around
isBeyondThreshold(eventTime, now) == eventTime - now >= LIVE_THRESHOLD_MS

isWithinThreshold(eventTime, now) == eventTime - now <= LIVE_THRESHOLD_MS

\* The value returned, together with the locals of the call: the clock
\* reading `now` and, in the last branch, days, hours, minutes and seconds.
getEventStatus(eventISODate, now) ==
    IF IsNaNDate(eventISODate)
    THEN [now |-> now, status |-> "upcoming", timerText |-> nanText,
          parts |-> <<"NaN", "NaN", "NaN", "NaN">>]
    ELSE LET eventTime == DateGetTime(eventISODate)
             distance == eventTime - now
         IN  IF isPassed(eventTime, now)
             THEN [now |-> now, status |-> "passed", timerText |-> "Uz prebehlo",
                   parts |-> <<>>]
             ELSE IF isWithinThreshold(eventTime, now)
             THEN [now |-> now, status |-> "live", timerText |-> "Nazivo",
                   parts |-> <<>>]
             ELSE [now |-> now, status |-> "upcoming",
                   timerText |-> upcomingText(distance),
                   parts |-> <<days(distance), hours(distance),
                               minutes(distance), seconds(distance)>>]

(***************************************************************************)
(* The document.  Sample pages: per accordion item its data-event-date and *)
(* its number of .status-box elements, and the dates whose countdown       *)
(* element exists in the markup.                                           *)
(***************************************************************************)
Pages ==
    { [dates |-> <<Date1, Date2, Undefined>>, boxes |-> <<2, 1, 1>>,
       countdowns |-> {Date1, Date2}],
      [dates |-> <<Undefined, Date2, Date1>>, boxes |-> <<1, 1, 2>>,
       countdowns |-> {Date1}],
      [dates |-> <<BadDate, Date1, Date1>>, boxes |-> <<1, 1, 0>>,
       countdowns |-> {BadDate, Date1}],
      [dates |-> <<Date1, EmptyDate, BadDate>>, boxes |-> <<1, 1, 2>>,
       countdowns |-> {}] }

AlphaNumeric ==
    { "0","1","2","3","4","5","6","7","8","9",
      "a","b","c","d","e","f","g","h","i","j","k","l","m",
      "n","o","p","q","r","s","t","u","v","w","x","y","z",
      "A","B","C","D","E","F","G","H","I","J","K","L","M",
      "N","O","P","Q","R","S","T","U","V","W","X","Y","Z" }

\* eventDate.replace(/[^a-zA-Z0-9]/g, '-')
sanitize(eventDate) ==
    [k \in 1..Len(eventDate) |->
        IF eventDate[k] \in AlphaNumeric THEN eventDate[k] ELSE "-"]

\* `countdown-${...}`
countdownId(eventDate) == <<"countdown-">> \o sanitize(eventDate)

\* Markup of an element no tick has written yet
InitialMarkup == ""

\* item.dataset.isLive before any tick sets it
NoAttribute == "undefined"

\* getEventStatus has not been called for the item
NotCalled == [now |-> 0, status |-> "none", timerText |-> "", parts |-> <<>>]

\* null
Null == 0

VARIABLES
    eventDate,          \* item -> item.dataset.eventDate
    statusBoxes,        \* item -> sequence of [innerHTML, classList]
    isLive,             \* item -> item.dataset.isLive
    countdown,          \* id of a countdown element -> its innerHTML
    lastStatus,         \* item -> what getEventStatus returned on the latest tick
    active,             \* items with class 'active'
    maxHeight,          \* items whose content has style.maxHeight set
    rotated,            \* items whose icon has class 'rotate-180'
    scrolled,           \* items scrollIntoView was requested on
    loaded,             \* the DOMContentLoaded handler has run
    initialLiveEvent,   \* the handler's const initialLiveEvent
    timer               \* the 100 ms timeout: "unset", "pending", "fired"

vars == <<eventDate, statusBoxes, isLive, countdown, lastStatus, active,
          maxHeight, rotated, scrolled, loaded, initialLiveEvent, timer>>

Items == DOMAIN eventDate

(***************************************************************************)
(* updateAccordionHeaders (main.js lines 103-160)                          *)
(***************************************************************************)
\* line 118; with eventTime NaN both comparisons are false
isTemporarilyLive(date, now) ==
    IF IsNaNDate(date) THEN FALSE
    ELSE (DateGetTime(date) - now) <= LIVE_THRESHOLD_MS
         /\ (DateGetTime(date) + LIVE_DURATION_MS) >= now

\* lines 133-146, one status box
writeStatusBox(statusBox, status, timerText) ==
    [innerHTML |-> IF status = "passed" THEN "Uz prebehlo"
                   ELSE IF status = "live" THEN "Nazivo" ELSE timerText,
     classList |-> (statusBox.classList
                        \ {"live_event", "upcoming_event", "passed_event"})
                   \cup { IF status = "live" THEN "live_event"
                          ELSE IF status = "passed" THEN "passed_event"
                          ELSE "upcoming_event" }]

\* lines 149-156
writeCountdown(cd, date, status, timerText) ==
    IF countdownId(date) \notin DOMAIN cd THEN cd
    ELSE IF status = "live" THEN [cd EXCEPT ![countdownId(date)] = "Nazivo!"]
    ELSE IF status = "upcoming" THEN [cd EXCEPT ![countdownId(date)] = timerText]
    ELSE cd

\* lines 112: `!eventDate` holds for a missing attribute and for the empty
\* string; a NodeList is never falsy
skipsItem(date) == date = Undefined \/ date = EmptyDate

\* Variant: line 128 without `&& !firstLiveEventItem`, the last live item wins
forEachBodyLastLive(v, item, now, read) ==
    LET date == eventDate[item]
        r == getEventStatus(date, read)
    IN  IF skipsItem(date) THEN v
        ELSE [isLive |-> [v.isLive EXCEPT ![item] =
                            IF isTemporarilyLive(date, now) THEN "true" ELSE "false"],
              first |-> IF r.status = "live" THEN item ELSE v.first,
              statusBoxes |-> [v.statusBoxes EXCEPT ![item] =
                            [k \in 1..Len(v.statusBoxes[item]) |->
                                writeStatusBox(v.statusBoxes[item][k], r.status, r.timerText)]],
              countdown |-> writeCountdown(v.countdown, date, r.status, r.timerText),
              lastStatus |-> [v.lastStatus EXCEPT ![item] = r]]

\* The body of the forEach callback for one item.  v is the view so far,
\* now the clock read on line 105, read the clock read inside getEventStatus.
forEachBody(v, item, now, read) ==
    LET date == eventDate[item]
        r == getEventStatus(date, read)
    IN  IF skipsItem(date) THEN v
        ELSE [isLive |-> [v.isLive EXCEPT ![item] =
                            IF isTemporarilyLive(date, now) THEN "true" ELSE "false"],
              first |-> IF r.status = "live" /\ v.first = Null THEN item ELSE v.first,
              statusBoxes |-> [v.statusBoxes EXCEPT ![item] =
                            [k \in 1..Len(v.statusBoxes[item]) |->
                                writeStatusBox(v.statusBoxes[item][k], r.status, r.timerText)]],
              countdown |-> writeCountdown(v.countdown, date, r.status, r.timerText),
              lastStatus |-> [v.lastStatus EXCEPT ![item] = r]]

RECURSIVE forEachItem(_, _, _, _)
forEachItem(v, item, now, reads) ==
    IF item \notin Items THEN v
    ELSE forEachItem(forEachBody(v, item, now, reads[item]), item + 1, now, reads)

\* The clock reads of one tick: `now` first, then one read per item in
\* document order, none earlier than the one before, all within MaxLatencyMs.
TickReads(now) ==
    { reads \in [Items -> Instants] :
        \A i \in Items :
            /\ now <= reads[i]
            /\ reads[i] <= now + MaxLatencyMs
            /\ \A j \in Items : i < j => reads[i] <= reads[j] }

updateAccordionHeaders(now, reads) ==
    forEachItem([isLive |-> isLive, first |-> Null, statusBoxes |-> statusBoxes,
                 countdown |-> countdown, lastStatus |-> lastStatus],
                1, now, reads)

(***************************************************************************)
(* toggleAccordion (main.js lines 165-201)                                 *)
(***************************************************************************)
\* Variant: lines 176-182 left out, the other items stay expanded
toggleAccordionKeepOthers(item, forceOpen) ==
    LET isExpanded == IF forceOpen THEN FALSE ELSE item \in active
    IN  IF forceOpen \/ ~isExpanded
        THEN [active |-> active \cup {item},
              maxHeight |-> maxHeight \cup {item},
              rotated |-> rotated \cup {item},
              scrolled |-> IF forceOpen THEN scrolled \cup {item} ELSE scrolled]
        ELSE [active |-> active \ {item},
              maxHeight |-> maxHeight \ {item},
              rotated |-> rotated \ {item},
              scrolled |-> scrolled]

toggleAccordion(item, forceOpen) ==
    LET isExpanded == IF forceOpen THEN FALSE ELSE item \in active
        closeOthers == ~isExpanded \/ forceOpen
        active1 == IF closeOthers THEN {} ELSE active
        maxHeight1 == IF closeOthers THEN maxHeight \ active ELSE maxHeight
        rotated1 == IF closeOthers THEN rotated \ active ELSE rotated
    IN  IF forceOpen \/ ~isExpanded
        THEN [active |-> active1 \cup {item},
              maxHeight |-> maxHeight1 \cup {item},
              rotated |-> rotated1 \cup {item},
              scrolled |-> IF forceOpen THEN scrolled \cup {item} ELSE scrolled]
        ELSE [active |-> active1 \ {item},
              maxHeight |-> maxHeight1 \ {item},
              rotated |-> rotated1 \ {item},
              scrolled |-> scrolled]

(***************************************************************************)
(* Initial state: the page as parsed, before DOMContentLoaded.             *)
(***************************************************************************)
Init ==
    \E page \in Pages, open \in SUBSET (1..3) :
        /\ Cardinality(open) <= 1
        /\ eventDate = page.dates
        /\ statusBoxes = [i \in DOMAIN page.dates |->
                            [k \in 1..page.boxes[i] |->
                                [innerHTML |-> InitialMarkup, classList |-> {"status-box"}]]]
        /\ isLive = [i \in DOMAIN page.dates |-> NoAttribute]
        /\ countdown = [id \in {countdownId(d) : d \in page.countdowns} |-> InitialMarkup]
        /\ lastStatus = [i \in DOMAIN page.dates |-> NotCalled]
        /\ active = open
        /\ maxHeight = open
        /\ rotated = open
        /\ scrolled = {}
        /\ loaded = FALSE
        /\ initialLiveEvent = Null
        /\ timer = "unset"

(***************************************************************************)
(* Actions                                                                 *)
(***************************************************************************)
\* The DOMContentLoaded handler (lines 217-237): installs the click
\* handlers and the intervals, runs the first tick, arms the timeout.
DOMContentLoaded ==
    /\ ~loaded
    /\ \E now \in Instants : \E reads \in TickReads(now) :
        LET v == updateAccordionHeaders(now, reads)
        IN  /\ isLive' = v.isLive
            /\ statusBoxes' = v.statusBoxes
            /\ countdown' = v.countdown
            /\ lastStatus' = v.lastStatus
            /\ initialLiveEvent' = v.first
            /\ timer' = IF v.first # Null THEN "pending" ELSE "unset"
    /\ loaded' = TRUE
    /\ UNCHANGED <<eventDate, active, maxHeight, rotated, scrolled>>

\* setInterval(updateAccordionHeaders, 1000): the returned item is dropped
Tick ==
    /\ loaded
    /\ \E now \in Instants : \E reads \in TickReads(now) :
        LET v == updateAccordionHeaders(now, reads)
        IN  /\ isLive' = v.isLive
            /\ statusBoxes' = v.statusBoxes
            /\ countdown' = v.countdown
            /\ lastStatus' = v.lastStatus
    /\ UNCHANGED <<eventDate, active, maxHeight, rotated, scrolled, loaded,
                   initialLiveEvent, timer>>

\* The click listener of one header (lines 208-211)
clickListener(item) ==
    /\ loaded
    /\ LET t == toggleAccordion(item, FALSE)
       IN  /\ active' = t.active
           /\ maxHeight' = t.maxHeight
           /\ rotated' = t.rotated
           /\ scrolled' = t.scrolled
    /\ UNCHANGED <<eventDate, statusBoxes, isLive, countdown, lastStatus, loaded,
                   initialLiveEvent, timer>>

\* A click on the header of some item
HeaderClick == \E item \in Items : clickListener(item)

\* The timeout callback (lines 233-235)
AutoOpen ==
    /\ timer = "pending"
    /\ LET t == toggleAccordion(initialLiveEvent, TRUE)
       IN  /\ active' = t.active
           /\ maxHeight' = t.maxHeight
           /\ rotated' = t.rotated
           /\ scrolled' = t.scrolled
    /\ timer' = "fired"
    /\ UNCHANGED <<eventDate, statusBoxes, isLive, countdown, lastStatus, loaded,
                   initialLiveEvent>>

Next == DOMContentLoaded \/ Tick \/ HeaderClick \/ AutoOpen

Spec == Init /\ [][Next]_vars

(***************************************************************************)
(* Vocabulary of the properties                                            *)
(***************************************************************************)
\* The item's start instant is present and parses
HasValidDate(i) == ~skipsItem(eventDate[i]) /\ ~IsNaNDate(eventDate[i])

\* getEventStatus has classified the item with a valid start instant
Classified(i) == HasValidDate(i) /\ lastStatus[i].status # "none"

StartInstant(i) == DateGetTime(eventDate[i])

\* The clock reading of the item's latest classification
ReadNow(i) == lastStatus[i].now

\* The item's status boxes are as the markup had them
BoxesUntouched(i) ==
    \A k \in 1..Len(statusBoxes[i]) :
        statusBoxes[i][k] = [innerHTML |-> InitialMarkup, classList |-> {"status-box"}]

\* The first item, in document order, the latest tick classified as live
FirstLive ==
    IF \E i \in Items : lastStatus[i].status = "live"
    THEN CHOOSE i \in Items :
            /\ lastStatus[i].status = "live"
            /\ \A j \in Items : lastStatus[j].status = "live" => i <= j
    ELSE Null

\* The status a status box shows, read off its class
Shown(i) ==
    IF Len(statusBoxes[i]) = 0 THEN "none"
    ELSE IF "live_event" \in statusBoxes[i][1].classList THEN "live"
    ELSE IF "passed_event" \in statusBoxes[i][1].classList THEN "passed"
    ELSE IF "upcoming_event" \in statusBoxes[i][1].classList THEN "upcoming"
    ELSE "none"

C4_CountdownComponents ==
    \A i \in Items :
        Classified(i) /\ lastStatus[i].status = "upcoming" =>
            LET p == lastStatus[i].parts
                distance == StartInstant(i) - ReadNow(i)
            IN  /\ distance > LIVE_THRESHOLD_MS
                /\ Len(p) = 4
                /\ p[1] >= 0
                /\ p[2] \in 0..23
                /\ p[3] \in 0..59
                /\ p[4] \in 0..59
                /\ p[1] * 86400 + p[2] * 3600 + p[3] * 60 + p[4] = distance \div 1000

C4_Witness ==
    \E i \in Items :
        /\ Classified(i)
        /\ lastStatus[i].status = "upcoming"
        /\ lastStatus[i].parts = <<1, 12, 3, 4>>
        /\ (StartInstant(i) - ReadNow(i)) % 1000 # 0

(***************************************************************************)
(* C5.  A tick skips an event whose start instant is missing or            *)
(* unparseable: it writes no status text, no status class, no is-live      *)
(* attribute and no countdown text for it and never picks it as the live   *)
(* event to open, and it still processes the other events.                 *)
(***************************************************************************)
C5_SkipsMissingOrUnparseable ==
    loaded =>
        \A i \in Items :
            IF HasValidDate(i)
            THEN lastStatus[i].status # "none" /\ isLive[i] # NoAttribute
            ELSE /\ BoxesUntouched(i)
                 /\ isLive[i] = NoAttribute
                 /\ countdownId(eventDate[i]) \in DOMAIN countdown
                        => countdown[countdownId(eventDate[i])] = InitialMarkup
                 /\ initialLiveEvent # i

(***************************************************************************)
(* C6.  At most one accordion item is expanded; a click on a collapsed     *)
(* item leaves it the only expanded item, and a click on the expanded item *)
(* collapses it.                                                           *)
(***************************************************************************)
C6_AtMostOneExpanded ==
    /\ [](Cardinality(active) <= 1)
    /\ [][\A i \in Items :
            clickListener(i) => active' = (IF i \in active THEN {} ELSE {i})]_vars

C6_Witness ==
    /\ timer = "fired"
    /\ \E i \in Items : active = {i} /\ i # initialLiveEvent

(***************************************************************************)
(* C7.  The startup tick hands the first item it classified as live, in    *)
(* document order, to the auto-open timer; when the timer fires that item  *)
(* becomes the only expanded item and a scroll into view is requested for  *)
(* it, whatever clicks and ticks came in between; when the startup tick    *)
(* found no live item, no timer is armed and nothing is ever scrolled.     *)
(***************************************************************************)
C7_AutoOpenFirstLive ==
    [][/\ (~loaded /\ loaded') => initialLiveEvent' = FirstLive'
       /\ loaded => initialLiveEvent' = initialLiveEvent
       /\ (timer = "pending" /\ timer' = "fired")
            => /\ initialLiveEvent # Null
               /\ active' = {initialLiveEvent}
               /\ initialLiveEvent \in scrolled'
       /\ (loaded' /\ initialLiveEvent' = Null)
            => timer' = "unset" /\ scrolled' = {}
       /\ (loaded' /\ initialLiveEvent' # Null) => timer' # "unset"]_vars

C7_Witness ==
    /\ timer = "fired"
    /\ initialLiveEvent = 3
    /\ active = {3}
    /\ scrolled = {3}
    /\ lastStatus[3].status = "passed"

(***************************************************************************)
(* C8.  From one tick to the next, when the clock reading has not          *)
(* decreased, an event shown Live is not shown Upcoming and an event shown *)
(* Passed is still shown Passed.                                           *)
(***************************************************************************)
C8_StatusWalk ==
    [][\A i \in Items :
        (Classified(i) /\ lastStatus'[i].now >= lastStatus[i].now) =>
            /\ Shown(i) = "live" => Shown(i)' # "upcoming"
            /\ Shown(i) = "passed" => Shown(i)' = "passed"
            /\ Shown(i)' \in {"none", lastStatus'[i].status}]_vars

C8_Witness ==
    \E i \in Items :
        /\ Classified(i)
        /\ Shown(i) = "passed"
        /\ countdownId(eventDate[i]) \in DOMAIN countdown
        /\ countdown[countdownId(eventDate[i])] = "Nazivo!"

(***************************************************************************)
(* C9.  After a tick, what the view shows for an event with a valid start  *)
(* instant (every status box and the countdown element) is what that tick  *)
(* alone would write on the page as loaded: it depends on the start        *)
(* instant and the clock reading of that tick only.                        *)
(***************************************************************************)
C9_TickIndependent ==
    loaded =>
        \A i \in Items :
            HasValidDate(i) =>
                LET r == lastStatus[i]
                    id == countdownId(eventDate[i])
                    fresh == [innerHTML |-> InitialMarkup, classList |-> {"status-box"}]
                IN  /\ \A k \in 1..Len(statusBoxes[i]) :
                            statusBoxes[i][k] = writeStatusBox(fresh, r.status, r.timerText)
                    /\ (id \in DOMAIN countdown
                        /\ \A j \in Items : countdownId(eventDate[j]) = id => j = i)
                            => countdown[id] =
                                 writeCountdown([x \in {id} |-> InitialMarkup],
                                                eventDate[i], r.status, r.timerText)[id]

(***************************************************************************)
(* C10.  After every tick, data-is-live is 'true' exactly when the status  *)
(* computed in that tick is Live, and 'false' otherwise.                   *)
(***************************************************************************)
C10_IsLiveMatchesStatus ==
    loaded =>
        \A i \in Items :
            HasValidDate(i) =>
                isLive[i] = (IF lastStatus[i].status = "live" THEN "true" ELSE "false")

=============================================================================
